---- MODULE Spec2Model ----
(***************************************************************************)
(* Smithsonian provider API script (smithsonian.py): the hash-prefix       *)
(* generator, the per-shard pagination loop, main, and the extraction of   *)
(* image records from the rows of a response.                              *)
(*                                                                         *)
(* Python values are tagged records: None, Str(s), Num(n), List(q) and     *)
(* Dict(f), f a function from key strings to values.  A Python exception   *)
(* is the flag raised; the step that raises keeps what was done before it. *)
(***************************************************************************)
EXTENDS Integers, Sequences, FiniteSets, TLC

VARIABLES
    pc,             \* "gen" | "exhausted" | "main" | "while" | "done" | "rows" | "rows_done" | "raised"
    prefix_length,  \* argument of _get_hash_prefixes
    gen_h,          \* next h of the generator's range
    yielded,        \* the strings the generator has yielded so far
    hash_prefix,    \* _process_hash_prefix: the shard being swept
    row_offset,     \* _process_hash_prefix: row_offset
    total_rows,     \* _process_hash_prefix: total_rows
    total_images,   \* total_images of the function that is running
    response_json,  \* the last value get_response_json returned
    requests,       \* the start offsets requested for the current shard
    shard_rows,     \* the API: the rowCount the current shard settles at
    settled,        \* the API: "yes" when the shard now reports shard_rows, "no" when
                    \* it does not yet, "never" when it reports any rowCount for good
    steady,         \* every response of the shard so far reported shard_rows
    row_idx,        \* _process_response_json: rows processed so far
    title,          \* _process_response_json: title of the last row
    landing_url,    \* _process_response_json: landing_url of the last row
    creator,        \* _process_response_json: creator of the last row
    meta_data,      \* _process_response_json: meta_data of the last row
    tags,           \* _process_response_json: tags of the last row
    image_store,    \* the add_item calls received by image_store, in order
    commits,        \* the number of image_store.commit calls
    last_page,      \* the last response of the current sweep that was not None
    returned,       \* the hash prefixes whose sweep has returned, in order
    main_total_rows \* main: total_rows, the value the last sweep returned; it is
                    \* logged at once and dropped when the next sweep is entered

genVars == <<prefix_length, gen_h, yielded>>
sweepVars == <<hash_prefix, row_offset, total_rows, requests>>
apiVars == <<shard_rows, settled, steady, last_page>>
mainVars == <<returned, main_total_rows>>
rowVars == <<row_idx, title, landing_url, creator, meta_data, tags>>
vars == <<pc, genVars, sweepVars, apiVars, rowVars, total_images,
          response_json, image_store, commits, mainVars>>

----------------------------------------------------------------------------
\* Program constants.

HASH_PREFIX_LENGTH == 2
LIMIT == 1000
ZERO_URL == "https://creativecommons.org/publicdomain/zero/1.0/"

CREATOR_TYPES ==
    ("artist" :> 0) @@ ("artist/maker" :> 0) @@ ("attributed to" :> 0)
    @@ ("author" :> 0) @@ ("created_by" :> 0) @@ ("creator" :> 0)
    @@ ("model maker" :> 0) @@ ("photographer" :> 0)
    @@ ("photograph by" :> 0) @@ ("written by" :> 0)
    @@ ("architect" :> 1) @@ ("designer" :> 1)
    @@ ("compiled by" :> 2) @@ ("engraver" :> 2) @@ ("etcher" :> 2)
    @@ ("maker" :> 2) @@ ("silversmith" :> 2)
    @@ ("print maker" :> 3) @@ ("after" :> 3) @@ ("inventor" :> 0)
    @@ ("manufactured by" :> 4) @@ ("manufacturer" :> 4)
    @@ ("published by" :> 4) @@ ("publisher" :> 4)
    @@ ("patentee" :> 5)

----------------------------------------------------------------------------
\* Bounds of the model.

MaxPrefixLength == 2    \* prefix lengths 1..MaxPrefixLength for the generator alone
MaxPages == 2           \* reported rowCounts reach MaxPages * LIMIT + 1
MaxImages == 2          \* add_item calls in one run of main
MaxNames == 2           \* length of a name list
MaxNotes == 2           \* length of a notes list
MaxMedia == 2           \* length of a media list

----------------------------------------------------------------------------
\* Python values.

None == [type |-> "NoneType"]
Str(s) == [type |-> "str", s |-> s]
Num(n) == [type |-> "int", n |-> n]
List(q) == [type |-> "list", elems |-> q]
Dict(f) == [type |-> "dict", items |-> f]
NoItems == << >>
EmptyDict == Dict(NoItems)
EmptyList == List(<< >>)

\* d.get(k, default) of a dict d
Get(d, k, default) == IF k \in DOMAIN d.items THEN d.items[k] ELSE default

\* the truth value of a str, a list or None
Truthy(v) ==
    CASE v.type = "str" -> v.s # ""
      [] v.type = "list" -> v.elems # << >>
      [] v.type = "dict" -> DOMAIN v.items # {}
      [] OTHER -> FALSE

\* str.lower() on the ASCII letters
LowerChar(c) ==
    CASE c = "A" -> "a" [] c = "B" -> "b" [] c = "C" -> "c" [] c = "D" -> "d"
      [] c = "E" -> "e" [] c = "F" -> "f" [] c = "G" -> "g" [] c = "H" -> "h"
      [] c = "I" -> "i" [] c = "J" -> "j" [] c = "K" -> "k" [] c = "L" -> "l"
      [] c = "M" -> "m" [] c = "N" -> "n" [] c = "O" -> "o" [] c = "P" -> "p"
      [] c = "Q" -> "q" [] c = "R" -> "r" [] c = "S" -> "s" [] c = "T" -> "t"
      [] c = "U" -> "u" [] c = "V" -> "v" [] c = "W" -> "w" [] c = "X" -> "x"
      [] c = "Y" -> "y" [] c = "Z" -> "z" [] OTHER -> c

RECURSIVE Lower(_)
Lower(s) ==
    IF Len(s) = 0 THEN ""
    ELSE LowerChar(SubSeq(s, 1, 1)) \o Lower(SubSeq(s, 2, Len(s)))

----------------------------------------------------------------------------
\* _get_hash_prefixes

HexDigits == "0123456789abcdef"
HexChar(d) == SubSeq(HexDigits, d + 1, d + 1)
HexValue(c) == CHOOSE d \in 0..15 : HexChar(d) = c

\* 'f' * prefix_length
RECURSIVE Repeat(_, _)
Repeat(c, n) == IF n = 0 THEN "" ELSE c \o Repeat(c, n - 1)

\* int(s, 16) of a non-empty string of hexadecimal digits
RECURSIVE ParseHex(_)
ParseHex(s) ==
    IF Len(s) = 1 THEN HexValue(s)
    ELSE 16 * ParseHex(SubSeq(s, 1, Len(s) - 1)) + HexValue(SubSeq(s, Len(s), Len(s)))

\* format(h, 'x'): the hexadecimal digits of h, no padding
RECURSIVE HexRepr(_)
HexRepr(h) == IF h < 16 THEN HexChar(h) ELSE HexRepr(h \div 16) \o HexChar(h % 16)

RECURSIVE ZeroPad(_, _)
ZeroPad(s, width) == IF Len(s) >= width THEN s ELSE ZeroPad("0" \o s, width)

FormatNoPad(h, width) == HexRepr(h)

\* format(h, f'0{width}x')
Format(h, width) == ZeroPad(HexRepr(h), width)

\* int(max_prefix, 16), the last h of the range
MaxPrefixValue(length) == ParseHex(Repeat("f", length))

\* the generator has another value to yield
GenHasNext == gen_h <= MaxPrefixValue(prefix_length)

\* one next() of the generator
YieldPrefix ==
    /\ pc = "gen"
    /\ GenHasNext
    /\ yielded' = Append(yielded, Format(gen_h, prefix_length))
    /\ gen_h' = gen_h + 1
    /\ UNCHANGED <<pc, prefix_length, sweepVars, apiVars, rowVars, total_images,
                   response_json, image_store, commits, mainVars>>

\* the generator's range is exhausted: StopIteration
StopIteration ==
    /\ pc = "gen"
    /\ ~GenHasNext
    /\ pc' = "exhausted"
    /\ UNCHANGED <<genVars, sweepVars, apiVars, rowVars, total_images,
                   response_json, image_store, commits, mainVars>>

\* the variables no function has assigned yet
Idle ==
    /\ hash_prefix = "" /\ row_offset = 0 /\ total_rows = 0 /\ requests = << >>
    /\ shard_rows = 0 /\ settled = "never" /\ steady = TRUE /\ last_page = None
    /\ row_idx = 0 /\ title = None /\ landing_url = None /\ creator = None
    /\ meta_data = None /\ tags = None
    /\ total_images = None
    /\ image_store = << >> /\ commits = 0
    /\ returned = << >> /\ main_total_rows = None

InitPrefix ==
    /\ pc = "gen"
    /\ prefix_length \in 1..MaxPrefixLength
    /\ gen_h = 0
    /\ yielded = << >>
    /\ response_json = None
    /\ Idle

NextPrefix == YieldPrefix \/ StopIteration

SpecPrefix == InitPrefix /\ [][NextPrefix]_vars

----------------------------------------------------------------------------
\* Claims about _get_hash_prefixes.

RECURSIVE Pow16(_)
Pow16(n) == IF n = 0 THEN 1 ELSE 16 * Pow16(n - 1)

IsLowerHex(s) == \A i \in 1..Len(s) : \E d \in 0..15 : SubSeq(s, i, i) = HexChar(d)

\* all strings of n lowercase hexadecimal digits
RECURSIVE HexStrings(_)
HexStrings(n) ==
    IF n = 0 THEN {""}
    ELSE {s \o HexChar(d) : s \in HexStrings(n - 1), d \in 0..15}

\* C5: _get_hash_prefixes(L) yields 16^L pairwise distinct strings of exactly
\* L lowercase hexadecimal digits, the k-th being the number k-1, so that
\* every L-digit prefix appears exactly once.
C5_HashPrefixes ==
    /\ pc \in {"gen", "exhausted"} /\ yielded # << >> =>
        LET s == yielded[Len(yielded)] IN
        /\ Len(s) = prefix_length
        /\ IsLowerHex(s)
        /\ ParseHex(s) = Len(yielded) - 1
        /\ Len(yielded) <= Pow16(prefix_length)
    /\ pc = "exhausted" =>
        /\ Len(yielded) = Pow16(prefix_length)
        /\ \A i \in 1..Len(yielded) :
              Len(yielded[i]) = prefix_length /\ ParseHex(yielded[i]) = i - 1
        /\ {yielded[i] : i \in 1..Len(yielded)} = HexStrings(prefix_length)
        /\ Cardinality({yielded[i] : i \in 1..Len(yielded)}) = Len(yielded)

C5_Witness ==
    /\ pc = "exhausted" /\ prefix_length = 2
    /\ Len(yielded) = 256 /\ yielded[1] = "00" /\ yielded[11] = "0a" /\ yielded[256] = "ff"

----------------------------------------------------------------------------
\* Field resolution: _get_foreign_landing_url, _get_creator,
\* _extract_meta_data, _extract_tags.

GetForeignLandingUrl(dnr_dict) ==
    LET foreign_landing_url == Get(dnr_dict, "record_link", None) IN
    IF foreign_landing_url = None THEN Get(dnr_dict, "guid", None)
    ELSE foreign_landing_url

\* the condition of the freetext list comprehension
IsFreetextCreator(i) ==
    /\ i.type = "dict"
    /\ Lower(Get(i, "label", Str("")).s) \in DOMAIN CREATOR_TYPES
    /\ Truthy(Get(i, "content", None))

\* the sort key: creator_types[x['label'].lower()]
CreatorRank(x) == CREATOR_TYPES[Lower(x.items["label"].s)]

\* x placed behind every element whose key is not greater than its own
RECURSIVE InsertByRank(_, _)
InsertByRank(x, q) ==
    IF q = << >> THEN <<x>>
    ELSE IF CreatorRank(x) < CreatorRank(Head(q)) THEN <<x>> \o q
    ELSE <<Head(q)>> \o InsertByRank(x, Tail(q))

RECURSIVE StableSort(_)
StableSort(q) ==
    IF q = << >> THEN << >>
    ELSE InsertByRank(q[Len(q)], StableSort(SubSeq(q, 1, Len(q) - 1)))

Unsorted(q) == q

\* sorted(..., key=lambda x: creator_types[x['label'].lower()]), which is stable
Sorted(q) == StableSort(q)

\* the condition of the indexed_structured generator
IsPersonalMain(i) ==
    /\ i.type = "dict"
    /\ Lower(Get(i, "type", Str("")).s) = "personal_main"
    /\ Truthy(Get(i, "content", None))

\* _get_creator raises AttributeError: .get of a value that is no dict
GetCreatorRaises(indexed_structured, freetext) ==
    freetext.type # "dict" \/ indexed_structured.type # "dict"

GetCreator(indexed_structured, freetext) ==
    LET ordered_freetext_creator_objects ==
            Sorted(SelectSeq(Get(freetext, "name", EmptyList).elems, IsFreetextCreator))
        indexed_structured_creators ==
            SelectSeq(Get(indexed_structured, "name", EmptyList).elems, IsPersonalMain)
        first_freetext ==
            IF ordered_freetext_creator_objects # << >>
            THEN ordered_freetext_creator_objects[1].items["content"]
            ELSE None
    IN  IF first_freetext # None THEN first_freetext
        ELSE IF indexed_structured_creators # << >>
        THEN indexed_structured_creators[1].items["content"]
        ELSE None

\* the for loop over notes: acc is <<description, label_texts>>
RECURSIVE NotesLoop(_, _)
NotesLoop(notes, acc) ==
    IF notes = << >> THEN acc
    ELSE
        LET note == Head(notes)
            label == Get(note, "label", None)
            piece == " " \o Get(note, "content", Str("")).s
        IN  NotesLoop(Tail(notes),
                IF label = Str("Description") THEN <<acc[1] \o piece, acc[2]>>
                ELSE IF label = Str("Summary") THEN <<acc[1] \o piece, acc[2]>>
                ELSE IF label = Str("Caption") THEN <<acc[1] \o piece, acc[2]>>
                ELSE IF label = Str("Label Text") THEN <<acc[1], acc[2] \o piece>>
                ELSE acc)

\* _extract_meta_data raises AttributeError: .get of a value that is no dict
ExtractMetaDataRaises(descriptive_non_repeating, freetext) ==
    \/ freetext.type # "dict"
    \/ \E k \in 1..Len(Get(freetext, "notes", EmptyList).elems) :
          Get(freetext, "notes", EmptyList).elems[k].type # "dict"

ExtractMetaData(descriptive_non_repeating, freetext) ==
    LET acc == NotesLoop(Get(freetext, "notes", EmptyList).elems, <<"", "">>)
        description == acc[1]
        label_texts == acc[2]
    IN  Dict(("unit_code" :> Get(descriptive_non_repeating, "unit_code", None))
             @@ ("data_source" :> Get(descriptive_non_repeating, "data_source", None))
             @@ (IF description # "" THEN "description" :> Str(description) ELSE NoItems)
             @@ (IF label_texts # "" THEN "label_texts" :> Str(label_texts) ELSE NoItems))

TagsAlwaysList(indexed_structured) ==
    List(Get(indexed_structured, "date", EmptyList).elems
         \o Get(indexed_structured, "object_type", EmptyList).elems
         \o Get(indexed_structured, "topic", EmptyList).elems
         \o Get(indexed_structured, "place", EmptyList).elems)

ExtractTags(indexed_structured) ==
    LET tags_list ==
            Get(indexed_structured, "date", EmptyList).elems
            \o Get(indexed_structured, "object_type", EmptyList).elems
            \o Get(indexed_structured, "topic", EmptyList).elems
            \o Get(indexed_structured, "place", EmptyList).elems
    IN  IF tags_list # << >> THEN List(tags_list) ELSE None

----------------------------------------------------------------------------
\* _process_image_list and _process_response_json.

\* image_store.add_item: the call is recorded, the running total returned
AddItem(store, item) == [image_store |-> Append(store, item),
                         total_images |-> Num(Len(store) + 1)]

\* the condition of the if in _process_image_list
IsCC0Image(image_data) ==
    /\ Get(image_data, "type", None) = Str("Images")
    /\ Get(Get(image_data, "usage", EmptyDict), "access", None) = Str("CC0")

\* the for loop of _process_image_list; st is [image_store, total_images, raised]
RECURSIVE ImageLoop(_, _, _)
ImageLoop(images, shared, st) ==
    IF images = << >> THEN st
    ELSE
        LET image_data == Head(images) IN
        IF image_data.type # "dict" THEN [st EXCEPT !.raised = TRUE]
        ELSE IF IsCC0Image(image_data)
        THEN LET added == AddItem(st.image_store,
                    [foreign_landing_url |-> shared.landing_url,
                     image_url |-> Get(image_data, "content", None),
                     thumbnail_url |-> Get(image_data, "thumbnail", None),
                     license_url |-> Str(ZERO_URL),
                     foreign_identifier |-> Get(image_data, "idsId", None),
                     title |-> shared.title,
                     creator |-> shared.creator,
                     meta_data |-> shared.meta_data,
                     raw_tags |-> shared.tags])
             IN  ImageLoop(Tail(images), shared,
                           [st EXCEPT !.image_store = added.image_store,
                                      !.total_images = added.total_images])
        ELSE ImageLoop(Tail(images), shared, st)

ProcessImageList(image_list, shared, store) ==
    ImageLoop(image_list.elems, shared,
              [image_store |-> store, total_images |-> None, raised |-> FALSE])

\* one pass of the for loop of _process_response_json over row; st holds
\* image_store, total_images, raised and the locals of the pass
RowStep(row, st) ==
    LET content == Get(row, "content", EmptyDict)
        descriptive_non_repeating == Get(content, "descriptiveNonRepeating", EmptyDict)
        indexed_structured == Get(content, "indexedStructured", EmptyDict)
        freetext == Get(content, "freetext", None)
        row_title == Get(row, "title", None)
        row_landing_url == GetForeignLandingUrl(descriptive_non_repeating)
    IN
    IF GetCreatorRaises(indexed_structured, freetext)
    THEN [st EXCEPT !.raised = TRUE, !.title = row_title, !.landing_url = row_landing_url]
    ELSE
    LET row_creator == GetCreator(indexed_structured, freetext) IN
    IF ExtractMetaDataRaises(descriptive_non_repeating, freetext)
    THEN [st EXCEPT !.raised = TRUE, !.title = row_title,
                    !.landing_url = row_landing_url, !.creator = row_creator]
    ELSE
    LET row_meta_data == ExtractMetaData(descriptive_non_repeating, freetext)
        row_tags == ExtractTags(indexed_structured)
        image_list == Get(Get(descriptive_non_repeating, "online_media", EmptyDict),
                          "media", None)
        shared == [landing_url |-> row_landing_url, title |-> row_title,
                   creator |-> row_creator, meta_data |-> row_meta_data,
                   tags |-> row_tags]
        locals == [st EXCEPT !.title = row_title, !.landing_url = row_landing_url,
                             !.creator = row_creator, !.meta_data = row_meta_data,
                             !.tags = row_tags]
    IN
    IF image_list = None THEN locals
    ELSE LET done == ProcessImageList(image_list, shared, st.image_store) IN
         [locals EXCEPT !.image_store = done.image_store,
                        !.total_images = done.total_images,
                        !.raised = done.raised]

\* rows = response_json.get('response', {}).get('rows', [])
Rows(json) == Get(Get(json, "response", EmptyDict), "rows", EmptyList).elems

\* the whole for loop of _process_response_json, stopped by an exception
RECURSIVE RowsLoop(_, _)
RowsLoop(rows, st) ==
    IF rows = << >> \/ st.raised THEN st
    ELSE RowsLoop(Tail(rows), RowStep(Head(rows), st))

\* _process_response_json(json) run against the store
ProcessResponseJson(json, store) ==
    RowsLoop(Rows(json),
             [image_store |-> store, total_images |-> None, raised |-> FALSE,
              title |-> None, landing_url |-> None, creator |-> None,
              meta_data |-> None, tags |-> None])

\* the state of _process_response_json as a record
RowState ==
    [image_store |-> image_store, total_images |-> total_images, raised |-> pc = "raised",
     title |-> title, landing_url |-> landing_url, creator |-> creator,
     meta_data |-> meta_data, tags |-> tags]

\* one pass of the for loop over the rows of response_json
ProcessRow ==
    /\ pc = "rows"
    /\ row_idx < Len(Rows(response_json))
    /\ LET st == RowStep(Rows(response_json)[row_idx + 1], RowState) IN
        /\ pc' = IF st.raised THEN "raised" ELSE "rows"
        /\ row_idx' = IF st.raised THEN row_idx ELSE row_idx + 1
        /\ image_store' = st.image_store
        /\ total_images' = st.total_images
        /\ title' = st.title
        /\ landing_url' = st.landing_url
        /\ creator' = st.creator
        /\ meta_data' = st.meta_data
        /\ tags' = st.tags
    /\ UNCHANGED <<genVars, sweepVars, apiVars, response_json, commits, mainVars>>

\* the for loop is over: return total_images
ReturnTotalImages ==
    /\ pc = "rows"
    /\ row_idx = Len(Rows(response_json))
    /\ pc' = "rows_done"
    /\ UNCHANGED <<genVars, sweepVars, apiVars, rowVars, total_images,
                   response_json, image_store, commits, mainVars>>

NextExtract == ProcessRow \/ ReturnTotalImages

----------------------------------------------------------------------------
\* The responses given to _process_response_json.

SeqsUpTo(S, n) == UNION {[1..k -> S] : k \in 0..n}
Opt(k, vs) == {NoItems} \cup {k :> v : v \in vs}

NameEntry(label, content) == Dict(("label" :> Str(label)) @@ ("content" :> Str(content)))

\* entries of freetext['name']
FreetextNames ==
    {NameEntry("Creator", "ArtistX"), NameEntry("Publisher", "PubCo"),
     NameEntry("artist", "ArtistY"), NameEntry("Architect", "ArchZ"),
     NameEntry("Donor", "DonorD"), NameEntry("Creator", ""),
     Dict("content" :> Str("NoLabel")), Dict("label" :> Str("Creator")),
     Str("junk")}

PersonEntry(type, content) == Dict(("type" :> Str(type)) @@ ("content" :> Str(content)))

\* entries of indexedStructured['name']
IndexedNames ==
    {PersonEntry("personal_main", "Jane"), PersonEntry("Personal_Main", "John"),
     PersonEntry("corporate", "Corp"), PersonEntry("personal_main", ""),
     Dict("content" :> Str("NoType")), Str("junk")}

NoteEntry(label, content) == Dict(("label" :> Str(label)) @@ ("content" :> Str(content)))

\* entries of freetext['notes']
Notes ==
    {NoteEntry("Description", "A"), NoteEntry("Summary", "B"),
     NoteEntry("Caption", "C"), NoteEntry("Label Text", "L"),
     NoteEntry("Notes", "N"), NoteEntry("description", "lower"),
     NoteEntry("Description", ""), Dict("label" :> Str("Summary")),
     Dict("content" :> Str("NoLabel"))}

Usage(access) == Dict("access" :> Str(access))

\* entries of online_media['media']
Media ==
    {Dict(("type" :> Str("Images")) @@ ("usage" :> Usage("CC0"))
          @@ ("content" :> Str("u1")) @@ ("thumbnail" :> Str("t1"))
          @@ ("idsId" :> Str("id1"))),
     Dict(("type" :> Str("Images")) @@ ("usage" :> Usage("CC0"))
          @@ ("content" :> Str("u2")) @@ ("idsId" :> Str("id2"))),
     Dict(("type" :> Str("Images")) @@ ("usage" :> Usage("Usage conditions apply"))
          @@ ("content" :> Str("u3")) @@ ("idsId" :> Str("id3"))),
     Dict(("type" :> Str("Videos")) @@ ("usage" :> Usage("CC0"))
          @@ ("content" :> Str("u4")) @@ ("idsId" :> Str("id4"))),
     Dict(("type" :> Str("Images")) @@ ("content" :> Str("u5"))),
     Dict(("usage" :> Usage("CC0")) @@ ("content" :> Str("u6"))),
     Dict(("type" :> Str("Images")) @@ ("usage" :> EmptyDict))}

TagLists(a, b) == {EmptyList, List(<<Str(a)>>), List(<<Str(a), Str(b)>>)}

\* the items of indexedStructured that _extract_tags reads
TagItems ==
    {d @@ o @@ t @@ p :
        d \in Opt("date", TagLists("1850s", "1860s")),
        o \in Opt("object_type", TagLists("Paintings", "Prints")),
        t \in Opt("topic", TagLists("Birds", "Art")),
        p \in Opt("place", TagLists("Ohio", "Peru"))}

OneMedia == Dict("media" :> List(<<CHOOSE m \in Media : Get(m, "idsId", None) = Str("id1")>>))

\* descriptiveNonRepeating without its online_media
LinkItems ==
    {("record_link" :> Str("https://collection/1")) @@ ("guid" :> Str("guid1"))
        @@ ("unit_code" :> Str("NMNH")) @@ ("data_source" :> Str("Museum")),
     ("guid" :> Str("guid2")) @@ ("unit_code" :> Str("SAAM")),
     NoItems}

FullLink == CHOOSE l \in LinkItems : "record_link" \in DOMAIN l

Row(title_items, dnr_items, is_items, ft_items) ==
    Dict(title_items
         @@ ("content" :> Dict(("descriptiveNonRepeating" :> Dict(dnr_items))
                               @@ ("indexedStructured" :> Dict(is_items))
                               @@ ("freetext" :> Dict(ft_items)))))

TitleItems == "title" :> Str("Title1")

\* rows that differ in the name lists
CreatorRows ==
    {Row(TitleItems, FullLink @@ ("online_media" :> OneMedia), isn, ftn) :
        ftn \in {"name" :> List(q) : q \in SeqsUpTo(FreetextNames, MaxNames)},
        isn \in {NoItems, "name" :> List(<<PersonEntry("personal_main", "Jane")>>)}}
    \cup
    {Row(TitleItems, FullLink @@ ("online_media" :> OneMedia), isn, ftn) :
        ftn \in {NoItems, "name" :> List(<<NameEntry("Donor", "DonorD"), Str("junk")>>)},
        isn \in {"name" :> List(q) : q \in SeqsUpTo(IndexedNames, MaxNames)}}

\* rows that differ in the notes
NotesRows ==
    {Row(TitleItems, l @@ ("online_media" :> OneMedia), NoItems, ftn) :
        l \in {FullLink, NoItems},
        ftn \in {NoItems} \cup {"notes" :> List(q) : q \in SeqsUpTo(Notes, MaxNotes)}}

\* rows that differ in the tag arrays
TagsRows ==
    {Row(TitleItems, FullLink @@ ("online_media" :> OneMedia), isn, NoItems) :
        isn \in TagItems}

\* rows that differ in the media list and in what its entries share
MediaRows ==
    {Row(t, l @@ om, NoItems, NoItems) :
        t \in {TitleItems, NoItems},
        l \in LinkItems,
        om \in {NoItems, "online_media" :> EmptyDict}
               \cup {"online_media" :> Dict("media" :> List(q)) :
                        q \in SeqsUpTo(Media, MaxMedia)}}

ExtractRows == CreatorRows \cup NotesRows \cup TagsRows \cup MediaRows

\* rows for the pages of two rows
PairRows ==
    {Row(TitleItems, l @@ ("online_media" :> Dict("media" :> List(q))), NoItems, NoItems) :
        l \in {FullLink}, q \in SeqsUpTo(Media, 1)}

Response(rows) == Dict("response" :> Dict(("rowCount" :> Num(Len(rows))) @@ ("rows" :> List(rows))))

ExtractResponses ==
    {Response(<<r>>) : r \in ExtractRows}
    \cup {Response(<<r1, r2>>) : r1, r2 \in PairRows}
    \cup {Response(<< >>), EmptyDict, Dict("response" :> EmptyDict)}

\* rows with a part missing, or with entries that are no dicts
MalformedRows ==
    {EmptyDict,
     Dict(TitleItems @@ ("content" :> EmptyDict)),
     Dict(TitleItems @@ ("content" :> Dict("freetext" :> EmptyDict))),
     Dict(TitleItems @@ ("content" :>
            Dict("descriptiveNonRepeating" :> Dict(FullLink @@ ("online_media" :> OneMedia))))),
     Dict(TitleItems @@ ("content" :>
            Dict(("descriptiveNonRepeating" :> Dict(FullLink @@ ("online_media" :> OneMedia)))
                 @@ ("freetext" :> EmptyDict)))),
     Row(TitleItems, FullLink, NoItems, NoItems),
     Row(TitleItems, FullLink @@ ("online_media" :> EmptyDict), NoItems, NoItems),
     Row(TitleItems, FullLink @@ ("online_media" :> OneMedia),
         "name" :> List(<<Str("junk")>>), "name" :> List(<<Str("junk")>>))}
    \cup
    {Row(TitleItems, FullLink @@ ("online_media" :> Dict("media" :> List(q))), NoItems, NoItems) :
        q \in SeqsUpTo(Media \cup {Str("junk")}, MaxMedia)}

MalformedResponses ==
    {Response(<<r>>) : r \in MalformedRows}
    \cup {Response(<<r1, r2>>) : r1 \in {EmptyDict, Row(TitleItems, FullLink @@ ("online_media" :> Dict("media" :> List(<<Str("junk")>>))), NoItems, NoItems)},
                                 r2 \in PairRows}

\* _process_response_json is entered with json
EnterRows(json) ==
    /\ pc = "rows"
    /\ response_json = json
    /\ prefix_length = HASH_PREFIX_LENGTH /\ gen_h = 0 /\ yielded = << >>
    /\ Idle

InitExtract == \E json \in ExtractResponses : EnterRows(json)

SpecExtract == InitExtract /\ [][NextExtract]_vars

InitMalformed == \E json \in MalformedResponses : EnterRows(json)

SpecMalformed == InitMalformed /\ [][NextExtract]_vars

----------------------------------------------------------------------------
\* _process_hash_prefix and main.

\* the rowCounts the API reports: around each multiple of LIMIT
RowCounts == {k * LIMIT + d : k \in 0..MaxPages, d \in {0, 1}}

\* a row with one CC0 image and one entry that does not qualify
ImageRow ==
    Row(TitleItems,
        FullLink @@ ("online_media" :> Dict("media" :>
            List(<<CHOOSE m \in Media : Get(m, "idsId", None) = Str("id3"),
                   CHOOSE m \in Media : Get(m, "idsId", None) = Str("id1")>>))),
        "name" :> List(<<PersonEntry("personal_main", "Jane")>>),
        ("name" :> List(<<NameEntry("Publisher", "PubCo"), NameEntry("Creator", "ArtistX")>>))
        @@ ("notes" :> List(<<NoteEntry("Description", "A")>>)))

\* a row without a media list
PlainRow == Row(TitleItems, FullLink, NoItems, NoItems)

\* the rows of a page of the search endpoint
Pages == {<< >>, <<PlainRow, ImageRow>>}

\* the decoded responses of the search endpoint
PageResponses ==
    {Dict("response" :> Dict(("rowCount" :> Num(n)) @@ ("rows" :> List(p)))) :
        n \in RowCounts, p \in Pages}
    \cup {Dict("response" :> Dict("rows" :> List(<<PlainRow, ImageRow>>))), EmptyDict}

ReportedRowCountOrOne(json) == Get(Get(json, "response", EmptyDict), "rowCount", Num(1)).n

\* response_json.get('response', {}).get('rowCount', 0)
ReportedRowCount(json) == Get(Get(json, "response", EmptyDict), "rowCount", Num(0)).n

\* the response carries a rowCount and it is n
Reports(json, n) == Get(Get(json, "response", EmptyDict), "rowCount", None) = Num(n)

LoopConditionInclusive == row_offset <= total_rows

\* while row_offset < total_rows
LoopCondition == row_offset < total_rows

\* _process_hash_prefix(prefix) is entered; the API's shard settles at rows
EnterSweep(prefix, rows, is_settled) ==
    /\ pc' = "while"
    /\ hash_prefix' = prefix
    /\ total_images' = Num(0)
    /\ row_offset' = 0
    /\ total_rows' = 1
    /\ requests' = << >>
    /\ response_json' = None
    /\ last_page' = None
    /\ shard_rows' = rows
    /\ settled' = is_settled
    /\ steady' = TRUE

RequestFailedNoAdvance ==
    /\ pc = "while"
    /\ LoopCondition
    /\ requests' = Append(requests, row_offset)
    /\ response_json' = None
    /\ steady' = (steady /\ requests # << >>)
    /\ UNCHANGED <<pc, genVars, hash_prefix, row_offset, total_rows, shard_rows, settled,
                   last_page, rowVars, total_images, image_store, commits, mainVars>>

\* one pass of the while loop in which get_response_json returns None
RequestFailed ==
    /\ pc = "while"
    /\ LoopCondition
    /\ requests' = Append(requests, row_offset)
    /\ response_json' = None
    /\ row_offset' = row_offset + LIMIT
    /\ steady' = (steady /\ requests # << >>)
    /\ UNCHANGED <<pc, genVars, hash_prefix, total_rows, shard_rows, settled, last_page,
                   rowVars, total_images, image_store, commits, mainVars>>

\* one pass of the while loop in which get_response_json returns a page
RequestPage ==
    /\ pc = "while"
    /\ LoopCondition
    /\ \E json \in PageResponses :
        LET done == ProcessResponseJson(json, image_store) IN
        /\ settled = "yes" => Reports(json, shard_rows)
        /\ Len(done.image_store) <= MaxImages
        /\ requests' = Append(requests, row_offset)
        /\ response_json' = json
        /\ last_page' = json
        /\ image_store' = done.image_store
        /\ steady' = (steady /\ Reports(json, shard_rows))
        /\ IF done.raised
           THEN /\ pc' = "raised"
                /\ UNCHANGED <<total_images, total_rows, row_offset>>
           ELSE /\ pc' = "while"
                /\ total_images' = IF done.total_images # None
                                   THEN done.total_images ELSE total_images
                /\ total_rows' = ReportedRowCount(json)
                /\ row_offset' = row_offset + LIMIT
    /\ settled' \in (IF settled = "no" THEN {"no", "yes"} ELSE {settled})
    /\ UNCHANGED <<genVars, hash_prefix, shard_rows, rowVars, commits, mainVars>>

\* the while loop is over: return total_rows to main; the frame is gone
SweepReturn ==
    /\ pc = "while"
    /\ ~LoopCondition
    /\ pc' = "main"
    /\ returned' = Append(returned, hash_prefix)
    /\ main_total_rows' = Num(total_rows)
    /\ hash_prefix' = "" /\ row_offset' = 0 /\ total_rows' = 0 /\ requests' = << >>
    /\ shard_rows' = 0 /\ settled' = "never" /\ steady' = TRUE /\ last_page' = None
    /\ total_images' = None /\ response_json' = None
    /\ UNCHANGED <<genVars, rowVars, image_store, commits>>

MainCommitEarly ==
    /\ pc = "main"
    /\ commits' = commits + 1
    /\ pc' = "done"
    /\ UNCHANGED <<genVars, sweepVars, apiVars, rowVars, total_images, response_json,
                   image_store, mainVars>>

\* main: the for loop takes the next hash prefix and sweeps it
MainNextShard ==
    /\ pc = "main"
    /\ GenHasNext
    /\ yielded' = Append(yielded, Format(gen_h, prefix_length))
    /\ gen_h' = gen_h + 1
    /\ EnterSweep(Format(gen_h, prefix_length), 0, "never")
    /\ main_total_rows' = None
    /\ UNCHANGED <<prefix_length, rowVars, image_store, commits, returned>>

\* main: the for loop is over: image_store.commit()
MainCommit ==
    /\ pc = "main"
    /\ ~GenHasNext
    /\ commits' = commits + 1
    /\ pc' = "done"
    /\ UNCHANGED <<genVars, sweepVars, apiVars, rowVars, total_images, response_json,
                   image_store, mainVars>>

InitMain ==
    /\ pc = "main"
    /\ prefix_length = HASH_PREFIX_LENGTH
    /\ gen_h = 0
    /\ yielded = << >>
    /\ response_json = None
    /\ Idle

NextMain == MainNextShard \/ RequestFailed \/ RequestPage \/ SweepReturn \/ MainCommit

\* every call returns: the requester gives up after its retries
SpecMain == InitMain /\ [][NextMain]_vars /\ WF_vars(NextMain)

\* the shards a sweep is checked on by itself
SweepPrefixes == {Format(h, HASH_PREFIX_LENGTH) : h \in {0, 171, 255}}

\* _process_hash_prefix has just been called
InitShard ==
    /\ pc = "while"
    /\ prefix_length = HASH_PREFIX_LENGTH /\ gen_h = 0 /\ yielded = << >>
    /\ hash_prefix \in SweepPrefixes
    /\ total_images = Num(0)
    /\ row_offset = 0
    /\ total_rows = 1
    /\ requests = << >>
    /\ response_json = None
    /\ last_page = None
    /\ shard_rows \in RowCounts
    /\ settled \in {"no", "yes", "never"}
    /\ steady = TRUE
    /\ row_idx = 0 /\ title = None /\ landing_url = None /\ creator = None
    /\ meta_data = None /\ tags = None
    /\ image_store = << >> /\ commits = 0
    /\ returned = << >> /\ main_total_rows = None

NextShard == RequestFailed \/ RequestPage \/ SweepReturn

SpecShard == InitShard /\ [][NextShard]_vars /\ WF_vars(NextShard)

----------------------------------------------------------------------------
\* Claims about the extraction of one row.

\* a pass of the for loop has ended without an exception
RowProcessed == pc \in {"rows", "rows_done"} /\ row_idx >= 1

\* the row of the last pass
CurRow == Rows(response_json)[row_idx]

\* d[k] when d is a dict with key k, else an empty dict
Sub(d, k) == IF d.type = "dict" /\ k \in DOMAIN d.items THEN d.items[k] ELSE EmptyDict

\* the elements of the list d[k], none when d has no key k
Elems(d, k) == IF d.type = "dict" /\ k \in DOMAIN d.items THEN d.items[k].elems ELSE << >>

Field(d, k) == IF k \in DOMAIN d.items THEN d.items[k] ELSE None

CurFreetext == Sub(Sub(CurRow, "content"), "freetext")
CurIndexed == Sub(Sub(CurRow, "content"), "indexedStructured")

C2_Qualifies(e) ==
    /\ e.type = "dict"
    /\ "label" \in DOMAIN e.items
    /\ Lower(e.items["label"].s) \in DOMAIN CREATOR_TYPES
    /\ "content" \in DOMAIN e.items
    /\ e.items["content"].s # ""

C2_Rank(e) == CREATOR_TYPES[Lower(e.items["label"].s)]

C2_Personal(e) ==
    /\ e.type = "dict"
    /\ "type" \in DOMAIN e.items
    /\ Lower(e.items["type"].s) = "personal_main"
    /\ "content" \in DOMAIN e.items
    /\ e.items["content"].s # ""

\* the priority rule of the claim, on the two name lists
C2_Rule(ftn, isn) ==
    LET Q == {i \in 1..Len(ftn) : C2_Qualifies(ftn[i])}
        P == {i \in 1..Len(isn) : C2_Personal(isn[i])}
    IN  IF Q # {}
        THEN ftn[CHOOSE i \in Q : \A j \in Q :
                    \/ C2_Rank(ftn[i]) < C2_Rank(ftn[j])
                    \/ C2_Rank(ftn[i]) = C2_Rank(ftn[j]) /\ i <= j].items["content"]
        ELSE IF P # {}
        THEN isn[CHOOSE i \in P : \A j \in P : i <= j].items["content"]
        ELSE None

C2_DistinctRanks(ftn) ==
    \A i, j \in 1..Len(ftn) :
        i # j /\ C2_Qualifies(ftn[i]) /\ C2_Qualifies(ftn[j])
            => C2_Rank(ftn[i]) # C2_Rank(ftn[j])

Perms(n) == {f \in [1..n -> 1..n] : \A i, j \in 1..n : i # j => f[i] # f[j]}

\* C2: _get_creator returns the content of the qualifying freetext name entry
\* of lowest rank, the first in input order among equal ranks; without one,
\* the content of the first personal_main entry of indexed-structured with
\* content; without one, None.  When the qualifying freetext entries have
\* different ranks, reordering the freetext list does not change the result.
C2_CreatorRule ==
    RowProcessed =>
        LET ftn == Elems(CurFreetext, "name")
            isn == Elems(CurIndexed, "name")
        IN  /\ creator = C2_Rule(ftn, isn)
            /\ C2_DistinctRanks(ftn) =>
                  \A f \in Perms(Len(ftn)) :
                      GetCreator(CurIndexed,
                                 Dict(("name" :> List([i \in 1..Len(ftn) |-> ftn[f[i]]]))
                                      @@ CurFreetext.items))
                          = creator

C2_Witness ==
    /\ pc = "rows_done"
    /\ row_idx = 1
    /\ Elems(CurFreetext, "name")
           = <<NameEntry("Publisher", "PubCo"), NameEntry("Creator", "ArtistX")>>
    /\ Elems(CurIndexed, "name") # << >>
    /\ creator = Str("ArtistX")

C3_Qualifies(e) ==
    /\ e.type = "dict"
    /\ "type" \in DOMAIN e.items
    /\ e.items["type"] = Str("Images")
    /\ "usage" \in DOMAIN e.items
    /\ "access" \in DOMAIN e.items["usage"].items
    /\ e.items["usage"].items["access"] = Str("CC0")

C3_Media(row) ==
    Elems(Sub(Sub(Sub(row, "content"), "descriptiveNonRepeating"), "online_media"), "media")

\* the add_item calls the claim expects of a row, given what its entries share
C3_Calls(row, t, l, c, m, g) ==
    LET q == SelectSeq(C3_Media(row), C3_Qualifies) IN
    [i \in 1..Len(q) |->
        [foreign_landing_url |-> l,
         image_url |-> Field(q[i], "content"),
         thumbnail_url |-> Field(q[i], "thumbnail"),
         license_url |-> Str("https://creativecommons.org/publicdomain/zero/1.0/"),
         foreign_identifier |-> Field(q[i], "idsId"),
         title |-> t, creator |-> c, meta_data |-> m, raw_tags |-> g]]

\* C3: the pass over a row with a media list (and with its freetext) adds to
\* image_store exactly one add_item call for each media entry of type Images
\* with usage.access CC0, in list order, with that entry's idsId, content and
\* thumbnail, ZERO_URL, and the landing URL, title, creator, meta-data and tags
\* of the row; nothing for other entries; and it raises no error.
C3_FanOut ==
    [][/\ pc = "rows"
       /\ row_idx < Len(Rows(response_json))
       /\ C3_Media(Rows(response_json)[row_idx + 1]) # << >>
       /\ "freetext" \in DOMAIN Sub(Rows(response_json)[row_idx + 1], "content").items
       =>
          /\ pc' = "rows"
          /\ row_idx' = row_idx + 1
          /\ LET calls == C3_Calls(Rows(response_json)[row_idx + 1],
                                   title', landing_url', creator', meta_data', tags')
             IN  /\ Len(image_store') = Len(image_store) + Len(calls)
                 /\ \A i \in 1..Len(image_store) : image_store'[i] = image_store[i]
                 /\ \A i \in 1..Len(calls) : image_store'[Len(image_store) + i] = calls[i]
      ]_vars

\* C4: processing a page of incomplete or malformed rows reaches no error
\* state.
C4_Total == pc # "raised"

RECURSIVE C6_Join(_)
C6_Join(q) ==
    IF q = << >> THEN ""
    ELSE IF Len(q) = 1 THEN q[1]
    ELSE q[1] \o " " \o C6_Join(Tail(q))

RECURSIVE C6_Contents(_, _)
C6_Contents(notes, labels) ==
    IF notes = << >> THEN << >>
    ELSE IF Field(Head(notes), "label") \in {Str(l) : l \in labels}
    THEN <<IF "content" \in DOMAIN Head(notes).items
           THEN Head(notes).items["content"].s ELSE "">>
         \o C6_Contents(Tail(notes), labels)
    ELSE C6_Contents(Tail(notes), labels)

C6_KeyIs(key, text) ==
    /\ text # "" => key \in DOMAIN meta_data.items /\ meta_data.items[key] = Str(text)
    /\ text = "" => key \notin DOMAIN meta_data.items

\* C6: description is the contents of the notes labeled Description, Summary
\* or Caption, in order, joined by single spaces with no leading or trailing
\* separator; label_texts the same for the notes labeled Label Text; each key
\* is present only when its string is non-empty.
C6_Description ==
    RowProcessed =>
        LET notes == Elems(CurFreetext, "notes") IN
        /\ C6_KeyIs("description",
                    C6_Join(C6_Contents(notes, {"Description", "Summary", "Caption"})))
        /\ C6_KeyIs("label_texts", C6_Join(C6_Contents(notes, {"Label Text"})))

\* C7: tags is None when date, object_type, topic and place are all empty or
\* missing; otherwise it is the non-empty list of the date elements, then the
\* object_type, the topic and the place elements, each group in its order.
C7_Tags ==
    RowProcessed =>
        LET d == Elems(CurIndexed, "date")
            o == Elems(CurIndexed, "object_type")
            t == Elems(CurIndexed, "topic")
            p == Elems(CurIndexed, "place")
        IN  IF Len(d) + Len(o) + Len(t) + Len(p) = 0
            THEN tags = None
            ELSE /\ tags.type = "list"
                 /\ Len(tags.elems) = Len(d) + Len(o) + Len(t) + Len(p)
                 /\ \A i \in 1..Len(d) : tags.elems[i] = d[i]
                 /\ \A i \in 1..Len(o) : tags.elems[Len(d) + i] = o[i]
                 /\ \A i \in 1..Len(t) : tags.elems[Len(d) + Len(o) + i] = t[i]
                 /\ \A i \in 1..Len(p) : tags.elems[Len(d) + Len(o) + Len(t) + i] = p[i]

C7_Witness ==
    /\ pc = "rows_done"
    /\ row_idx = 1
    /\ "topic" \notin DOMAIN CurIndexed.items
    /\ Elems(CurIndexed, "date") = << >> /\ "date" \in DOMAIN CurIndexed.items
    /\ tags = List(<<Str("Paintings"), Str("Prints"), Str("Ohio")>>)

----------------------------------------------------------------------------
\* Claims about the pagination loop and main.

\* the while loop of _process_hash_prefix is about to return
SweepOver == pc = "while" /\ ~(row_offset < total_rows)

\* the requests so far are at 0, LIMIT, 2 * LIMIT, ... in this order
C1_InOrder == \A i \in 1..Len(requests) : requests[i] = (i - 1) * LIMIT

\* the requests made are those at offset 0 and at every multiple of LIMIT below rows
C1_Visits(rows) ==
    /\ C1_InOrder
    /\ {requests[i] : i \in 1..Len(requests)}
           = {m \in {k * LIMIT : k \in 0..(MaxPages + 1)} : m = 0 \/ m < rows}

\* C1 as stated: when the rowCount a shard reports settles at R (the shard has
\* answered, and from some point on every page response reports R), the sweep
\* has requested offset 0 and every multiple of the limit below R, in
\* increasing order, when it ends.
C1_Original == SweepOver /\ last_page # None /\ settled = "yes" => C1_Visits(shard_rows)

\* C1 as amended: when the request at offset 0 succeeds and every page response
\* of the shard reports the same rowCount R, the sweep requests offset 0 and
\* every multiple of the limit below R, in increasing order, nothing else, and
\* then returns.
C1_Steady ==
    /\ [](pc = "while" => C1_InOrder)
    /\ [](SweepOver /\ steady => C1_Visits(shard_rows))
    /\ <>(pc = "main")

C1_Witness ==
    /\ SweepOver
    /\ steady
    /\ shard_rows = 2 * LIMIT + 1
    /\ requests = <<0, LIMIT, 2 * LIMIT>>
    /\ response_json = None

\* C8: in the loop row_offset is LIMIT times the number of requests made;
\* total_rows is the rowCount of the latest response that was not None, 1
\* before any, 0 when that response has no rowCount; a None response changes
\* neither total_rows nor the store; the loop is left exactly when
\* row_offset >= total_rows, and total_rows is what is returned.
C8_Loop ==
    /\ [](pc = "while" =>
            /\ row_offset = LIMIT * Len(requests)
            /\ total_rows =
                 IF last_page = None THEN 1
                 ELSE IF "response" \in DOMAIN last_page.items
                         /\ "rowCount" \in DOMAIN last_page.items["response"].items
                      THEN last_page.items["response"].items["rowCount"].n
                      ELSE 0)
    /\ [][pc = "while" /\ Len(requests') = Len(requests) + 1 /\ response_json' = None =>
              /\ total_rows' = total_rows
              /\ image_store' = image_store
              /\ row_offset' = row_offset + LIMIT]_vars
    /\ [][pc = "while" => ((pc' = "main") <=> (row_offset >= total_rows))]_vars
    /\ [][pc = "while" /\ pc' = "main" => main_total_rows' = Num(total_rows)]_vars

C8_Witness ==
    /\ SweepOver
    /\ Len(requests) = 2
    /\ last_page # None
    /\ "response" \in DOMAIN last_page.items
    /\ "rowCount" \notin DOMAIN last_page.items["response"].items
    /\ total_rows = 0
    /\ row_offset = 2 * LIMIT

\* C9 as stated: when every request of a shard returns None, the sweep of that
\* shard never returns.
C9_NeverReturns == ~(SweepOver /\ requests # << >> /\ last_page = None)

\* C9 as amended: when every request of a shard returns None, the sweep makes
\* one request, at offset 0; row_offset then is LIMIT, which is not below the
\* initial total_rows of 1, so the loop ends and 1 is returned, with nothing
\* added to the store.
C9_OneRequest ==
    /\ [](pc = "while" /\ requests # << >> /\ last_page = None =>
            /\ requests = <<0>>
            /\ row_offset = LIMIT
            /\ total_rows = 1
            /\ SweepOver
            /\ image_store = << >>)
    /\ [][SweepOver /\ last_page = None => main_total_rows' = Num(1)]_vars
    /\ <>(pc = "main")

C9_Witness == SweepOver /\ requests = <<0>> /\ last_page = None /\ response_json = None

\* C10: main sweeps the hash prefixes of length HASH_PREFIX_LENGTH in
\* increasing order, each once, one sweep ending before the next begins; None
\* responses do not stop the run; commit is called once, after the last
\* sweep, eventually, and no add_item call follows it.
C10_Main ==
    /\ [](/\ Len(yielded) <= Pow16(HASH_PREFIX_LENGTH)
          /\ yielded # << >> =>
                /\ Len(yielded[Len(yielded)]) = HASH_PREFIX_LENGTH
                /\ ParseHex(yielded[Len(yielded)]) = Len(yielded) - 1
          /\ returned = SubSeq(yielded, 1, Len(returned))
          /\ pc = "while" => Len(returned) = Len(yielded) - 1 /\ hash_prefix = yielded[Len(yielded)]
          /\ pc \in {"main", "done"} => Len(returned) = Len(yielded)
          /\ pc # "raised"
          /\ commits <= 1
          /\ commits = 1 <=> pc = "done"
          /\ commits = 1 => Len(returned) = Pow16(HASH_PREFIX_LENGTH))
    /\ [][Len(requests') = Len(requests) + 1 =>
              pc = "while" /\ commits = 0 /\ Len(returned) = Len(yielded) - 1]_vars
    /\ [][commits >= 1 => image_store' = image_store]_vars
    /\ <>(commits = 1)

C10_Witness ==
    /\ pc = "done"
    /\ commits = 1
    /\ Len(returned) = 256
    /\ returned[1] = "00" /\ returned[256] = "ff"
    /\ main_total_rows = Num(1)
    /\ Len(image_store) = MaxImages

====
